---- MODULE Spec2Model ----
(***************************************************************************)
(* corp_fin: descriptive statistics (mean, variance, covariance, standard  *)
(* deviation) and the risk metrics built on them (Beta, Sharpe).           *)
(*                                                                         *)
(* The library computes in f64.  The model keeps IEEE-754 binary           *)
(* arithmetic (signed zeros, subnormals, infinities, NaN, round to nearest *)
(* ties to even, overflow to infinity, underflow to zero) at a reduced     *)
(* width: FracBits fraction bits and exponents -ExpMin .. ExpMax instead   *)
(* of 52 fraction bits and exponents -1022 .. 1023.  A finite value is     *)
(* held as a sign and a magnitude counted in units of the smallest         *)
(* subnormal, 2^-(ExpMin + FracBits).                                      *)
(***************************************************************************)
EXTENDS Integers, Sequences, FiniteSets

VARIABLES nanSign, negZeroSum, beta, call, ret

vars == <<nanSign, negZeroSum, beta, call, ret>>

(***************************************************************************)
(* Bounds of the model.                                                    *)
(***************************************************************************)
FracBits == 2
ExpMin == 2
ExpMax == 3
MaxLen == 2

(***************************************************************************)
(* The floating-point format.                                              *)
(***************************************************************************)
RECURSIVE Pow2(_)
Pow2(k) == IF k = 0 THEN 1 ELSE 2 * Pow2(k - 1)

Prec == FracBits + 1
OneN == Pow2(ExpMin + FracBits)
MaxN == (Pow2(Prec) - 1) * Pow2(ExpMin + ExpMax)

Fin(s, n) == [k |-> "fin", s |-> s, n |-> n]
Inf(s) == [k |-> "inf", s |-> s, n |-> 0]
QNaN(s) == [k |-> "nan", s |-> s, n |-> 0]

PZero == Fin(0, 0)
NZero == Fin(1, 0)
One == Fin(0, OneN)
MinPos == Fin(0, 1)
MaxFin == Fin(0, MaxN)
\* f64::EPSILON: the gap between 1.0 and the next larger value.
EPSILON == Fin(0, OneN \div Pow2(FracBits))
\* The literal 1e-6 of is_one: above EPSILON and below 1.0, as in f64.
Tol == Fin(0, 2 * (OneN \div Pow2(FracBits)))

IsNaN(a) == a.k = "nan"
IsZero(a) == a.k = "fin" /\ a.n = 0
Xor(s, t) == IF s = t THEN 0 ELSE 1

\* The spacing of the representable values around q units.
RECURSIVE Step(_, _)
Step(q, st) == IF q < Pow2(Prec) * st THEN st ELSE Step(q, 2 * st)

\* num / den units (num >= 0, den > 0) rounded to nearest, ties to even.
RoundMag(num, den) ==
    LET q == num \div den
        st == Step(q, 1)
        lo == (q \div st) * st
        twice == 2 * (num - lo * den)
        half == st * den
        up == \/ twice > half
              \/ twice = half /\ ((lo \div st) % 2 = 1)
    IN  IF up THEN lo + st ELSE lo

Round(s, num, den) ==
    LET n == RoundMag(num, den)
    IN  IF n > MaxN THEN Inf(s) ELSE Fin(s, n)

\* The operations, given the sign bit ns of a NaN they produce.
Neg(a) == [a EXCEPT !.s = 1 - a.s]
Abs(a) == [a EXCEPT !.s = 0]

Add(ns, a, b) ==
    IF IsNaN(a) \/ IsNaN(b) THEN QNaN(ns)
    ELSE IF a.k = "inf" /\ b.k = "inf" THEN (IF a.s = b.s THEN a ELSE QNaN(ns))
    ELSE IF a.k = "inf" THEN a
    ELSE IF b.k = "inf" THEN b
    ELSE LET va == IF a.s = 1 THEN -a.n ELSE a.n
             vb == IF b.s = 1 THEN -b.n ELSE b.n
             v == va + vb
         IN  IF v = 0 THEN (IF a.s = 1 /\ b.s = 1 THEN NZero ELSE PZero)
             ELSE IF v < 0 THEN Round(1, -v, 1)
             ELSE Round(0, v, 1)

Mul(ns, a, b) ==
    IF IsNaN(a) \/ IsNaN(b) THEN QNaN(ns)
    ELSE IF a.k = "inf" \/ b.k = "inf"
         THEN (IF IsZero(a) \/ IsZero(b) THEN QNaN(ns) ELSE Inf(Xor(a.s, b.s)))
    ELSE Round(Xor(a.s, b.s), a.n * b.n, OneN)

Div(ns, a, b) ==
    IF IsNaN(a) \/ IsNaN(b) THEN QNaN(ns)
    ELSE IF a.k = "inf" THEN (IF b.k = "inf" THEN QNaN(ns) ELSE Inf(Xor(a.s, b.s)))
    ELSE IF b.k = "inf" THEN Fin(Xor(a.s, b.s), 0)
    ELSE IF b.n = 0 THEN (IF a.n = 0 THEN QNaN(ns) ELSE Inf(Xor(a.s, b.s)))
    ELSE Round(Xor(a.s, b.s), a.n * OneN, b.n)

\* The square root of v units^2, rounded to nearest, ties to even.
SqrtMag(v) ==
    LET r == CHOOSE r \in 0..v : r * r <= v /\ (r + 1) * (r + 1) > v
        st == Step(r, 1)
        lo == (r \div st) * st
        mid2 == (2 * lo + st) * (2 * lo + st)
        up == \/ 4 * v > mid2
              \/ 4 * v = mid2 /\ ((lo \div st) % 2 = 1)
    IN  IF up THEN lo + st ELSE lo

Sqrt(ns, a) ==
    IF IsNaN(a) THEN QNaN(ns)
    ELSE IF IsZero(a) THEN a
    ELSE IF a.s = 1 THEN QNaN(ns)
    ELSE IF a.k = "inf" THEN a
    ELSE Fin(0, SqrtMag(a.n * OneN))

\* a < b
Lt(a, b) ==
    IF IsNaN(a) \/ IsNaN(b) THEN FALSE
    ELSE LET Ext(x) == IF x.k = "inf" THEN MaxN + 1 ELSE x.n
             va == IF a.s = 1 THEN -Ext(a) ELSE Ext(a)
             vb == IF b.s = 1 THEN -Ext(b) ELSE Ext(b)
         IN  va < vb

\* f64 arithmetic of this build: the sign bit of a NaN an operation produces
\* is whatever the build gives.
NaN == QNaN(nanSign)
FNeg(a) == Neg(a)
FAbs(a) == Abs(a)
FAdd(a, b) == Add(nanSign, a, b)
FSub(a, b) == Add(nanSign, a, Neg(b))
FMul(a, b) == Mul(nanSign, a, b)
FDiv(a, b) == Div(nanSign, a, b)
FSqrt(a) == Sqrt(nanSign, a)
FLt(a, b) == Lt(a, b)

\* usize as f64
FromLen(n) == Round(0, n * OneN, 1)

(***************************************************************************)
(* Values the program passes around.                                       *)
(***************************************************************************)
None == [some |-> FALSE]
Some(v) == [some |-> TRUE, v |-> v]

\* A call returns a number, returns a boolean, or panics.
Ret(v) == [kind |-> "ret", v |-> v]
RetBool(b) == [kind |-> "bool", b |-> b]
Panic == [kind |-> "panic"]

\* Same number: the same datum, any NaN counting as the same NaN.
Same(a, b) == IF IsNaN(a) \/ IsNaN(b) THEN IsNaN(a) /\ IsNaN(b) ELSE a = b

(***************************************************************************)
(* prelude.rs                                                              *)
(***************************************************************************)
\* The neutral element of f64's Sum: -0.0 on current toolchains, 0.0 before.
SumInit == IF negZeroSum THEN NZero ELSE PZero

RECURSIVE SumFrom(_, _)
SumFrom(acc, s) ==
    IF s = <<>> THEN acc ELSE SumFrom(FAdd(acc, Head(s)), Tail(s))

\* iter().sum::<f64>()
Sum(s) == SumFrom(SumInit, s)

mean(series) ==
    LET n == FromLen(Len(series))
    IN  FDiv(Sum(series), n)

\* Mutant: an absent mean defaults to 0.0 instead of being computed.
variance_ZeroMean(series, pre_computed_mean) ==
    LET count == FromLen(Len(series))
        m == IF pre_computed_mean.some THEN pre_computed_mean.v ELSE PZero
        sq == [i \in 1..Len(series) |->
                 LET diff == FSub(series[i], m) IN FMul(diff, diff)]
    IN  FDiv(Sum(sq), count)

\* Mutant: the supplied mean is ignored and the series' own mean is used.
variance_Recomputes(series, pre_computed_mean) ==
    LET count == FromLen(Len(series))
        m == mean(series)
        sq == [i \in 1..Len(series) |->
                 LET diff == FSub(series[i], m) IN FMul(diff, diff)]
    IN  FDiv(Sum(sq), count)

variance(series, pre_computed_mean) ==
    LET count == FromLen(Len(series))
        m == IF pre_computed_mean.some THEN pre_computed_mean.v
             ELSE mean(series)
        sq == [i \in 1..Len(series) |->
                 LET diff == FSub(series[i], m) IN FMul(diff, diff)]
    IN  FDiv(Sum(sq), count)

\* Mutant: the sample divisor N - 1 instead of N.
covariance_SampleDivisor(x, y, pre_computed_mean) ==
    LET mean_x == IF pre_computed_mean.some THEN pre_computed_mean.v[1]
                  ELSE mean(x)
        mean_y == IF pre_computed_mean.some THEN pre_computed_mean.v[2]
                  ELSE mean(y)
        prod == [i \in 1..Len(x) |->
                   FMul(FSub(x[i], mean_x), FSub(y[i], mean_y))]
    IN  IF Len(x) # Len(y) \/ Len(x) = 0 THEN Panic
        ELSE Ret(FDiv(Sum(prod), FromLen(Len(x) - 1)))

\* Mutant: the deviations of y are taken from the mean of x.
covariance_OneMean(x, y, pre_computed_mean) ==
    LET mean_x == IF pre_computed_mean.some THEN pre_computed_mean.v[1]
                  ELSE mean(x)
        prod == [i \in 1..Len(x) |->
                   FMul(FSub(x[i], mean_x), FSub(y[i], mean_x))]
    IN  IF Len(x) # Len(y) THEN Panic
        ELSE Ret(FDiv(Sum(prod), FromLen(Len(x))))

covariance(x, y, pre_computed_mean) ==
    LET mean_x == IF pre_computed_mean.some THEN pre_computed_mean.v[1]
                  ELSE mean(x)
        mean_y == IF pre_computed_mean.some THEN pre_computed_mean.v[2]
                  ELSE mean(y)
        prod == [i \in 1..Len(x) |->
                   FMul(FSub(x[i], mean_x), FSub(y[i], mean_y))]
    IN  IF Len(x) # Len(y) THEN Panic
        ELSE Ret(FDiv(Sum(prod), FromLen(Len(x))))

standard_deviation(v) == FSqrt(v)

(***************************************************************************)
(* ratios/risk_metrics.rs                                                  *)
(***************************************************************************)
\* Mutant: the denominator is the variance of the series, not of the market.
BetaNew_SeriesVariance(series, market) ==
    IF Len(series) # Len(market) THEN Panic
    ELSE IF series = <<>> THEN Ret(PZero)
    ELSE LET c == covariance(series, market, None)
         IN  IF c.kind = "panic" THEN Panic
             ELSE Ret(FDiv(c.v, variance(series, None)))

\* Mutant: the empty-series fallback is tried before the length check.
BetaNew_EmptyFirst(series, market) ==
    IF series = <<>> THEN Ret(PZero)
    ELSE IF Len(series) # Len(market) THEN Panic
    ELSE LET c == covariance(series, market, None)
         IN  IF c.kind = "panic" THEN Panic
             ELSE Ret(FDiv(c.v, variance(market, None)))

BetaNew(series, market) ==
    IF Len(series) # Len(market) THEN Panic
    ELSE IF series = <<>> THEN Ret(PZero)
    ELSE LET c == covariance(series, market, None)
         IN  IF c.kind = "panic" THEN Panic
             ELSE Ret(FDiv(c.v, variance(market, None)))

is_one(b) == FLt(FAbs(FSub(b, One)), Tol)
\* Mutant: a comparison with zero instead of the sign bit.
is_negative_LessThanZero(b) == FLt(b, PZero)

is_negative(b) == b.s = 1
is_positive(b) == b.s = 0
value(b) == b

\* Mutant: only a standard deviation equal to zero gives 0.0.
internal_sharpe_ZeroOnly(series, rf, rp, sd) ==
    LET portfolio_ret == IF series.some THEN mean(series.v) ELSE rp.v
        std_div == IF series.some
                   THEN standard_deviation(
                            variance(series.v, Some(mean(series.v))))
                   ELSE sd.v
    IN  IF ~series.some /\ (~rp.some \/ ~sd.some) THEN Panic
        ELSE IF IsZero(std_div) THEN Ret(PZero)
        ELSE Ret(FDiv(FSub(portfolio_ret, rf), std_div))

\* Mutant: an absent rp or sd defaults to 0.0 instead of failing.
internal_sharpe_DefaultsAbsent(series, rf, rp, sd) ==
    LET portfolio_ret == IF series.some THEN mean(series.v)
                         ELSE IF rp.some THEN rp.v ELSE PZero
        std_div == IF series.some
                   THEN standard_deviation(
                            variance(series.v, Some(mean(series.v))))
                   ELSE IF sd.some THEN sd.v ELSE PZero
    IN  IF FLt(std_div, EPSILON) THEN Ret(PZero)
        ELSE Ret(FDiv(FSub(portfolio_ret, rf), std_div))

\* Mutant: series mode divides by the variance, the square root forgotten.
internal_sharpe_NoSqrt(series, rf, rp, sd) ==
    LET portfolio_ret == IF series.some THEN mean(series.v) ELSE rp.v
        std_div == IF series.some
                   THEN variance(series.v, Some(mean(series.v)))
                   ELSE sd.v
    IN  IF ~series.some /\ (~rp.some \/ ~sd.some) THEN Panic
        ELSE IF FLt(std_div, EPSILON) THEN Ret(PZero)
        ELSE Ret(FDiv(FSub(portfolio_ret, rf), std_div))

internal_sharpe(series, rf, rp, sd) ==
    LET portfolio_ret == IF series.some THEN mean(series.v) ELSE rp.v
        std_div == IF series.some
                   THEN standard_deviation(
                            variance(series.v, Some(mean(series.v))))
                   ELSE sd.v
    IN  IF ~series.some /\ (~rp.some \/ ~sd.some) THEN Panic
        ELSE IF FLt(std_div, EPSILON) THEN Ret(PZero)
        ELSE Ret(FDiv(FSub(portfolio_ret, rf), std_div))

sharpe(series, rf) == internal_sharpe(Some(series), rf, None, None)

\* sharpe!(series, rf) and sharpe!(rp, rf, sd)
sharpe_series(series, rf) == internal_sharpe(Some(series), rf, None, None)
sharpe_summary(rp, rf, sd) == internal_sharpe(None, rf, Some(rp), Some(sd))

(***************************************************************************)
(* Inputs.                                                                 *)
(***************************************************************************)
NegOne == Fin(1, OneN)

\* Elements of the paired series, and of the series passed alone.
Vals == {NZero, MinPos, One, NegOne, MaxFin}
WideVals == Vals \cup {PZero, Fin(0, 3 * OneN), Inf(0)}

RECURSIVE SeqsOf(_, _)
SeqsOf(V, n) ==
    IF n = 0 THEN {<<>>}
    ELSE LET shorter == SeqsOf(V, n - 1)
         IN  shorter \cup {Append(s, v) : s \in {t \in shorter : Len(t) = n - 1},
                                           v \in V}

Series == SeqsOf(Vals, MaxLen)
WideSeries == SeqsOf(WideVals, MaxLen)

Means == {None, Some(PZero), Some(One), Some(MinPos)}
MeanPairs == {None, Some(<<One, PZero>>), Some(<<MinPos, NegOne>>)}

Scalars == {PZero, NZero, MinPos, EPSILON, One, NegOne, Fin(0, 3 * OneN),
            MaxFin, Inf(0), Inf(1), QNaN(0), QNaN(1)}
Rates == {PZero, One, Inf(0)}
OptScalars == {None} \cup {Some(v) : v \in {MinPos, EPSILON, One, NegOne}}
OptSeries == {None} \cup {Some(s) : s \in Series}

NoBeta == [some |-> FALSE]

(***************************************************************************)
(* The calls a client makes: one call of a function, or the construction   *)
(* of a Beta followed by queries of it.                                    *)
(***************************************************************************)
Init ==
    /\ nanSign \in {0, 1}
    /\ negZeroSum \in BOOLEAN
    /\ beta = NoBeta
    /\ call = [op |-> "start"]
    /\ ret = [kind |-> "none"]

CallVariance ==
    /\ call.op = "start"
    /\ \E s \in WideSeries, m \in Means :
        /\ call' = [op |-> "variance", series |-> s, mean |-> m]
        /\ ret' = Ret(variance(s, m))
        /\ UNCHANGED <<nanSign, negZeroSum, beta>>

CallCovariance ==
    /\ call.op = "start"
    /\ \E x \in Series, y \in Series, m \in MeanPairs :
        /\ call' = [op |-> "covariance", x |-> x, y |-> y, mean |-> m]
        /\ ret' = covariance(x, y, m)
        /\ UNCHANGED <<nanSign, negZeroSum, beta>>

CallBetaNew ==
    /\ call.op = "start"
    /\ \E s \in Series, m \in Series :
        LET r == BetaNew(s, m)
        IN  /\ call' = [op |-> "Beta::new", series |-> s, market |-> m]
            /\ ret' = r
            /\ beta' = IF r.kind = "ret" THEN Some(r.v) ELSE NoBeta
            /\ UNCHANGED <<nanSign, negZeroSum>>

\* impl From<f64> for Beta
CallBetaFrom ==
    /\ call.op = "start"
    /\ \E v \in Scalars :
        /\ call' = [op |-> "Beta::from", value |-> v]
        /\ ret' = Ret(v)
        /\ beta' = Some(v)
        /\ UNCHANGED <<nanSign, negZeroSum>>

CallIsOne ==
    /\ beta.some
    /\ call' = [op |-> "is_one", self |-> beta.v]
    /\ ret' = RetBool(is_one(beta.v))
    /\ UNCHANGED <<nanSign, negZeroSum, beta>>

CallIsNegative ==
    /\ beta.some
    /\ call' = [op |-> "is_negative", self |-> beta.v]
    /\ ret' = RetBool(is_negative(beta.v))
    /\ UNCHANGED <<nanSign, negZeroSum, beta>>

CallIsPositive ==
    /\ beta.some
    /\ call' = [op |-> "is_positive", self |-> beta.v]
    /\ ret' = RetBool(is_positive(beta.v))
    /\ UNCHANGED <<nanSign, negZeroSum, beta>>

CallValue ==
    /\ beta.some
    /\ call' = [op |-> "value", self |-> beta.v]
    /\ ret' = Ret(value(beta.v))
    /\ UNCHANGED <<nanSign, negZeroSum, beta>>

\* impl From<Beta> for f64: takes the Beta by value.
CallIntoF64 ==
    /\ beta.some
    /\ call' = [op |-> "f64::from", self |-> beta.v]
    /\ ret' = Ret(beta.v)
    /\ beta' = NoBeta
    /\ UNCHANGED <<nanSign, negZeroSum>>

CallSharpe ==
    /\ call.op = "start"
    /\ \E s \in WideSeries, rf \in Rates :
        /\ call' = [op |-> "sharpe", series |-> s, rf |-> rf]
        /\ ret' = sharpe(s, rf)
        /\ UNCHANGED <<nanSign, negZeroSum, beta>>

CallSharpeSeries ==
    /\ call.op = "start"
    /\ \E s \in WideSeries, rf \in Rates :
        /\ call' = [op |-> "sharpe!2", series |-> s, rf |-> rf]
        /\ ret' = sharpe_series(s, rf)
        /\ UNCHANGED <<nanSign, negZeroSum, beta>>

CallSharpeSummary ==
    /\ call.op = "start"
    /\ \E rp \in Scalars, rf \in Rates, sd \in Scalars :
        /\ call' = [op |-> "sharpe!3", rp |-> rp, rf |-> rf, sd |-> sd]
        /\ ret' = sharpe_summary(rp, rf, sd)
        /\ UNCHANGED <<nanSign, negZeroSum, beta>>

CallInternalSharpe ==
    /\ call.op = "start"
    /\ \E s \in OptSeries, rf \in Rates, rp \in OptScalars, sd \in OptScalars :
        /\ call' = [op |-> "internal_sharpe", series |-> s, rf |-> rf,
                    rp |-> rp, sd |-> sd]
        /\ ret' = internal_sharpe(s, rf, rp, sd)
        /\ UNCHANGED <<nanSign, negZeroSum, beta>>

Next ==
    \/ CallVariance
    \/ CallCovariance
    \/ CallBetaNew
    \/ CallBetaFrom
    \/ CallIsOne
    \/ CallIsNegative
    \/ CallIsPositive
    \/ CallValue
    \/ CallIntoF64
    \/ CallSharpe
    \/ CallSharpeSeries
    \/ CallSharpeSummary
    \/ CallInternalSharpe

Spec == Init /\ [][Next]_vars

(***************************************************************************)
(* Properties.                                                             *)
(***************************************************************************)
\* Equal as numbers: Same, the two zeros counting as equal.
NumEq(a, b) == Same(a, b) \/ (IsZero(a) /\ IsZero(b))

FiniteNonZero(a) == a.k = "fin" /\ a.n # 0

EqualLen == Len(call.series) = Len(call.market)

\* C1: for equal-length series, Beta::new(series, market).value() is 0.0
\* when both are empty and otherwise covariance(series, market, None) /
\* variance(market, None), each computing its own means.
C1_BetaIsCovarianceOverVariance ==
    (call.op = "Beta::new" /\ EqualLen) =>
        /\ ret.kind = "ret"
        /\ beta = Some(ret.v)
        /\ IF call.series = <<>>
           THEN ret.v = PZero
           ELSE Same(ret.v, FDiv(covariance(call.series, call.market, None).v,
                                 variance(call.market, None)))

C1_Witness ==
    /\ call.op = "Beta::new"
    /\ Len(call.series) = MaxLen
    /\ EqualLen
    /\ ret.kind = "ret"
    /\ FiniteNonZero(ret.v)
    /\ ret.v # One

\* C2: with series of different lengths covariance (mean absent or present)
\* and Beta::new panic and return nothing, also when exactly one series is
\* empty: the 0.0 fallback of Beta::new is never taken on a mismatch.
C2_LengthMismatchPanics ==
    /\ (call.op = "covariance" /\ Len(call.x) # Len(call.y)) => ret = Panic
    /\ (call.op = "Beta::new" /\ ~EqualLen) => (ret = Panic /\ beta = NoBeta)

C2_Witness ==
    /\ call.op = "Beta::new"
    /\ call.series = <<>>
    /\ call.market # <<>>
    /\ ret = Panic

\* The portfolio return and standard deviation a sharpe call resolves.
IsSharpeCall == call.op \in {"sharpe", "sharpe!2", "sharpe!3", "internal_sharpe"}
SeriesMode ==
    \/ call.op \in {"sharpe", "sharpe!2"}
    \/ call.op = "internal_sharpe" /\ call.series.some
CallSeries == IF call.op = "internal_sharpe" THEN call.series.v ELSE call.series
ResolvedReturn ==
    IF SeriesMode THEN mean(CallSeries)
    ELSE IF call.op = "sharpe!3" THEN call.rp ELSE call.rp.v
ResolvedStdDev ==
    IF SeriesMode
    THEN standard_deviation(variance(CallSeries, Some(mean(CallSeries))))
    ELSE IF call.op = "sharpe!3" THEN call.sd ELSE call.sd.v

\* C3: in both modes of sharpe, a resolved standard deviation smaller than
\* machine epsilon (zero included) gives exactly 0.0, and any other gives
\* (portfolio_return - rf) / std_dev.
C3_SharpeContract ==
    (IsSharpeCall /\ ret.kind = "ret") =>
        IF FLt(ResolvedStdDev, EPSILON)
        THEN ret.v = PZero
        ELSE Same(ret.v, FDiv(FSub(ResolvedReturn, call.rf), ResolvedStdDev))

C3_Witness ==
    /\ call.op = "sharpe!3"
    /\ call.sd = MinPos
    /\ call.rp = One
    /\ ret = Ret(PZero)

\* C4: for a non-empty series S, variance(S, None) equals
\* variance(S, Some(mean(S))).
C4_VarianceInternalMeanAgrees ==
    (call.op = "variance" /\ ~call.mean.some /\ call.series # <<>>) =>
        /\ ret.kind = "ret"
        /\ Same(ret.v, variance(call.series, Some(mean(call.series))))

C4_Witness ==
    /\ call.op = "variance"
    /\ ~call.mean.some
    /\ Len(call.series) = MaxLen
    /\ ret.kind = "ret"
    /\ FiniteNonZero(ret.v)

\* The sum of (X[i] - mx) * (Y[i] - my) over the first i positions.
RECURSIVE RefSum(_, _, _, _, _)
RefSum(X, Y, mx, my, i) ==
    IF i = 0 THEN PZero
    ELSE FAdd(RefSum(X, Y, mx, my, i - 1),
              FMul(FSub(X[i], mx), FSub(Y[i], my)))

RefCovariance(X, Y, mx, my) == FDiv(RefSum(X, Y, mx, my, Len(X)), FromLen(Len(X)))

\* C5: a supplied mean is used verbatim: variance(S, Some(m)) is the sum of
\* (S[i] - m)^2 over N, covariance(X, Y, Some((mx, my))) the sum of
\* (X[i] - mx) * (Y[i] - my) over N, whatever m, mx, my are; with the mean
\* absent the same formulas are applied to mean(S), mean(X), mean(Y).
C5_SuppliedMeanUsedVerbatim ==
    /\ call.op = "variance" =>
           LET m == IF call.mean.some THEN call.mean.v ELSE mean(call.series)
           IN  /\ ret.kind = "ret"
               /\ NumEq(ret.v, RefCovariance(call.series, call.series, m, m))
    /\ (call.op = "covariance" /\ Len(call.x) = Len(call.y)) =>
           LET mx == IF call.mean.some THEN call.mean.v[1] ELSE mean(call.x)
               my == IF call.mean.some THEN call.mean.v[2] ELSE mean(call.y)
           IN  /\ ret.kind = "ret"
               /\ NumEq(ret.v, RefCovariance(call.x, call.y, mx, my))

C5_Witness ==
    /\ call.op = "variance"
    /\ call.mean.some
    /\ Len(call.series) = MaxLen
    /\ ~NumEq(call.mean.v, mean(call.series))
    /\ ~NumEq(ret.v, variance(call.series, None))
    /\ FiniteNonZero(ret.v)

NonConstant(X) == \E i, j \in 1..Len(X) : ~NumEq(X[i], X[j])

SelfBeta ==
    /\ call.op = "Beta::new"
    /\ call.series = call.market
    /\ NonConstant(call.series)

\* C6 as stated: for every non-constant series X, Beta::new(X, X).value()
\* is 1.0 within tolerance, so is_one() is true.
C6_Original ==
    SelfBeta => (ret.kind = "ret" /\ is_one(ret.v))

\* C6 amended: for every non-constant series X whose computed
\* variance(X, None) is finite and not zero, Beta::new(X, X).value() is 1.0
\* and is_one() is true.
C6_SelfBetaIsOne ==
    (SelfBeta /\ FiniteNonZero(variance(call.series, None))) =>
        /\ ret = Ret(One)
        /\ is_one(ret.v)

C6_Witness ==
    /\ SelfBeta
    /\ FiniteNonZero(variance(call.series, None))
    /\ ret = Ret(One)
    /\ beta = Some(One)

SwapMeans(m) == IF m.some THEN Some(<<m.v[2], m.v[1]>>) ELSE None

\* C7: for equal-length X and Y, covariance(X, Y, None) equals
\* covariance(Y, X, None), and covariance(X, Y, Some((mx, my))) equals
\* covariance(Y, X, Some((my, mx))).
C7_CovarianceSymmetric ==
    (call.op = "covariance" /\ Len(call.x) = Len(call.y)) =>
        /\ ret.kind = "ret"
        /\ ret = covariance(call.y, call.x, SwapMeans(call.mean))

C7_Witness ==
    /\ call.op = "covariance"
    /\ call.mean.some
    /\ Len(call.x) = MaxLen
    /\ Len(call.y) = MaxLen
    /\ call.x # call.y
    /\ FiniteNonZero(ret.v)

\* C8: is_negative() is true iff the stored value's sign bit is set,
\* is_positive() iff it is clear, exactly one of the two is true, and
\* value() and the conversion to f64 return the stored value, which no
\* query changes.
C8_SignBitQueries ==
    /\ call.op = "Beta::from" => beta = Some(call.value)
    /\ call.op = "is_negative" =>
           (ret = RetBool(call.self.s = 1) /\ beta = Some(call.self))
    /\ call.op = "is_positive" =>
           (ret = RetBool(call.self.s = 0) /\ beta = Some(call.self))
    /\ call.op = "is_one" => beta = Some(call.self)
    /\ call.op = "value" => (ret = Ret(call.self) /\ beta = Some(call.self))
    /\ call.op = "f64::from" => ret = Ret(call.self)
    /\ beta.some => (is_negative(beta.v) # is_positive(beta.v))

C8_Witness ==
    /\ call.op = "is_negative"
    /\ call.self = NZero
    /\ ret = RetBool(TRUE)
    /\ beta = Some(NZero)

\* C9: with no series, internal_sharpe panics when rp or sd is absent; with
\* a series, rp and sd are ignored and their absence is no fault.
C9_SummaryModeNeedsBoth ==
    call.op = "internal_sharpe" =>
        /\ (~call.series.some /\ (~call.rp.some \/ ~call.sd.some)) => ret = Panic
        /\ (~call.series.some /\ call.rp.some /\ call.sd.some) => ret.kind = "ret"
        /\ call.series.some =>
               /\ ret.kind = "ret"
               /\ ret = internal_sharpe(call.series, call.rf, None, None)
               /\ ret = internal_sharpe(call.series, call.rf, Some(One), Some(One))

C9_Witness ==
    /\ call.op = "internal_sharpe"
    /\ ~call.series.some
    /\ call.rp.some
    /\ ~call.sd.some
    /\ ret = Panic

\* C10: sharpe(S, rf) and sharpe!(S, rf) return what summary mode returns for
\* rp = mean(S) and sd = standard_deviation(variance(S, Some(mean(S)))).
C10_SeriesModeIsSummaryMode ==
    call.op \in {"sharpe", "sharpe!2"} =>
        LET rp == mean(call.series)
            sd == FSqrt(variance(call.series, Some(rp)))
        IN  /\ ret.kind = "ret"
            /\ Same(ret.v, sharpe_summary(rp, call.rf, sd).v)

C10_Witness ==
    /\ call.op = "sharpe"
    /\ Len(call.series) = MaxLen
    /\ ret.kind = "ret"
    /\ FiniteNonZero(ret.v)

====
